---- MODULE Spec2Model ----
(***************************************************************************)
(* Model of the listen-history pipeline of spotify_playlist:               *)
(*   src/spotify_data_set.py  (SpotifyDataSet: loader, normalizer,         *)
(*                             recoder, known-track mapper)                *)
(*   src/logic.py             (Logic: by-key aggregation, writer)          *)
(*                                                                         *)
(* A data frame is a record [tag, columns, rows]: `columns` is the ordered *)
(* column index, `rows` a sequence of functions from column name to cell.  *)
(* Python values are cells [kind, int, str]; a str is a tuple of           *)
(* characters, so that the regex replace and str.format are computed.      *)
(* The module is taken as importable (annotations evaluated lazily).       *)
(***************************************************************************)
EXTENDS Integers, Sequences, FiniteSets, TLC

\* ------------------------------------------------------------------ bounds
\* Highest segment index a data directory may hold (endsong_0 .. endsong_MaxSeg).
MaxSeg == 3
\* Number of top-level calls one run of the client makes.
MaxCalls == 2

\* ------------------------------------------------------------- Python values
PyInt(n) == [kind |-> "int", int |-> n, str |-> <<>>]
PyStr(s) == [kind |-> "str", int |-> 0, str |-> s]
PyNone == [kind |-> "null", int |-> 0, str |-> <<>>]

Range(s) == {s[i] : i \in 1..Len(s)}

IsPrefix(p, s) == Len(p) <= Len(s) /\ SubSeq(s, 1, Len(p)) = p

\* ------------------------------------------------------------ column schema
TIMESTAMP == "ts"
MS_PLAYED == "ms_played"
ALBUM_ARTIST_NAME == "album_artist_name"
ALBUM_NAME == "album_name"
TRACK_NAME == "track_name"
TRACK_ID == "track_id"
TRACK_KNOWN_ID == "track_known_id"
TRACK_URI == "spotify_track_uri"
USERNAME == "username"
IP_ADDRESS == "ip_addr_decrypted"
USER_AGENT == "user_agent_decrypted"
SONG_MODE == "mode"
SONG_KEY == "key"
SONG_FULL_KEY == "full_key"

\* COLUMNS_TO_RENAME as a function on column names (identity elsewhere).
COLUMNS_TO_RENAME(c) ==
    CASE c = "master_metadata_track_name" -> TRACK_NAME
      [] c = "master_metadata_album_artist_name" -> ALBUM_ARTIST_NAME
      [] c = "master_metadata_album_album_name" -> ALBUM_NAME
      [] OTHER -> c

AGG_LEVEL_TRACK == "track"

\* The columns the privacy drop names.
PRIVACY_COLUMNS == {USERNAME, IP_ADDRESS, USER_AGENT}

\* ------------------------------------------------------------------ strings
PREFIX == <<"s","p","o","t","i","f","y",":","t","r","a","c","k",":">>
URI_ABC123 == <<"s","p","o","t","i","f","y",":","t","r","a","c","k",":","A","B","C","1","2","3">>
URI_X9 == <<"s","p","o","t","i","f","y",":","t","r","a","c","k",":","X","9">>
OUT_DIR == <<"d","a","t","a","/","p","e","r","s","o","n","a","l","_","d","a","t","a","/","p","r","e","p","a","r","e","d","/">>
T_BY_KEY == <<"l","i","s","t","e","n","_","d","a","t","a","_","b","y","_","k","e","y",".","c","s","v">>
T_ALL == <<"a","l","l","_","m","y","_","t","r","a","c","k","s","_","{","0","}",".","c","s","v">>
T_TRIPLETS == <<"u","n","i","q","u","e","_","t","r","a","c","k","s","_","t","r","i","p","l","e","t","s","_","{","0","}",".","c","s","v">>

\* --------------------------------------------------------------- data frames
NoAttr == [tag |-> "unset", columns |-> <<>>, rows |-> <<>>]
NoneDF == [tag |-> "None", columns |-> <<>>, rows |-> <<>>]
DF(cols, rows) == [tag |-> "df", columns |-> cols, rows |-> rows]

\* ------------------------------------------------- the export (input files)
\* Column index of the records of a segment file, as the export writes them.
EXPORT_COLUMNS ==
    <<"ts", "username", "ms_played", "master_metadata_track_name",
      "master_metadata_album_artist_name", "master_metadata_album_album_name",
      "spotify_track_uri", "ip_addr_decrypted", "user_agent_decrypted",
      "key", "mode">>

\* The same export without the decrypted IP address field.
EXPORT_COLUMNS_NO_IP ==
    <<"ts", "username", "ms_played", "master_metadata_track_name",
      "master_metadata_album_artist_name", "master_metadata_album_album_name",
      "spotify_track_uri", "user_agent_decrypted", "key", "mode">>

ColumnChoices == {EXPORT_COLUMNS, EXPORT_COLUMNS_NO_IP}

Rec(ts, uri, key, mode, ms) ==
    [ts |-> ts, uri |-> uri, key |-> key, mode |-> mode, ms_played |-> ms]

\* Contents a segment file may have: JSON records, in file order.
FileChoices ==
    { << Rec(2, PyStr(URI_ABC123), 0, 1, 100) >>,
      << Rec(3, PyNone, 2, 0, 400), Rec(1, PyStr(URI_ABC123), 0, 1, 200) >>,
      << Rec(1, PyStr(URI_X9), 0, 0, 300) >> }

\* Every data directory: a set of present segment indices with their contents.
Directories == UNION { [S -> FileChoices] : S \in SUBSET (0..MaxSeg) }

VARIABLES
    files,              \* the data directory: segment index -> JSON records
    file_columns,       \* the fields of the export's records
    all_tracks_df,      \* SpotifyDataSet.all_tracks_df (NoAttr: never assigned)
    track_file_idx,     \* loader local
    all_tracks_json_df, \* loader local
    probes,             \* indices tested with os.path.isfile, in order
    reads,              \* indices read with pd.read_json, in order
    caller,             \* who called the loader: "static" or "get"
    pc,                 \* position of the running call; "idle" between calls
    err,                \* the exception that ended the run, "" if none
    ncalls,             \* top-level calls made so far
    loaded,             \* value returned by the last loader call
    ret,                \* value returned by the last get_tracks_listen_data call
    known_tracks_ids_map, \* argument of the last add_known_track_id call
    only_duration,      \* calc_listen_data_by_key: group key -> sum(ms_played)
    file_path,          \* path of the last file written by write_df_to_file
    now,                \* the local time of that write
    entry,              \* the top-level operation called last
    loads,              \* number of loader invocations so far
    stages              \* pipeline stages executed, in order

vars == <<files, file_columns, all_tracks_df, track_file_idx, all_tracks_json_df,
          probes, reads, caller, pc, err, ncalls, loaded, ret,
          known_tracks_ids_map, only_duration, file_path, now, entry, loads, stages>>

\* ------------------------------------------------------------------- loader
isfile(i) == i \in DOMAIN files

\* pd.read_json: one row per JSON record, one column per field.
read_json(i) ==
    DF(file_columns,
       [j \in 1..Len(files[i]) |->
           [c \in Range(file_columns) |->
               CASE c = TIMESTAMP -> PyInt(files[i][j].ts)
                 [] c = TRACK_URI -> files[i][j].uri
                 [] c = SONG_KEY -> PyInt(files[i][j].key)
                 [] c = SONG_MODE -> PyInt(files[i][j].mode)
                 [] c = MS_PLAYED -> PyInt(files[i][j].ms_played)
                 [] OTHER -> PyStr(<<"x">>)]])

\* pd.concat([a, b]): row union, a's rows first.
concat(a, b) == DF(a.columns, a.rows \o b.rows)

\* Insert row r into a sequence sorted by column `by`, after its equals.
RECURSIVE InsertBy(_, _, _)
InsertBy(by, r, s) ==
    IF s = <<>> THEN <<r>>
    ELSE IF r[by].int < s[1][by].int THEN <<r>> \o s
    ELSE <<s[1]>> \o InsertBy(by, r, Tail(s))

RECURSIVE SortRows(_, _)
SortRows(by, s) ==
    IF s = <<>> THEN <<>>
    ELSE InsertBy(by, s[Len(s)], SortRows(by, SubSeq(s, 1, Len(s) - 1)))

\* Mutant: the sort is left out.
sort_values_skipped(df, by) == df

\* DataFrame.sort_values(by, ascending = True).
sort_values(df, by) == DF(df.columns, SortRows(by, df.rows))

\* --------------------------------------------------------------- normalizer
\* Mutant: only the pattern's first character is removed.
re_sub_first_char(pat, s) ==
    IF IsPrefix(pat, s) THEN Tail(s) ELSE s

\* Series.replace(to_replace = pat, value = '', regex = True) on one str:
\* every non-overlapping occurrence of the pattern is removed, left to right.
RECURSIVE re_sub(_, _)
re_sub(pat, s) ==
    IF s = <<>> THEN <<>>
    ELSE IF IsPrefix(pat, s) THEN re_sub(pat, SubSeq(s, Len(pat) + 1, Len(s)))
    ELSE <<Head(s)>> \o re_sub(pat, Tail(s))

\* The replace on a cell: only str cells are touched, null stays null.
replace_regex(cell, pat) ==
    IF cell.kind = "str" THEN PyStr(re_sub(pat, cell.str)) ELSE cell

\* columns.get_loc(c): 0-based position of column c.
get_loc(cols, c) == (CHOOSE i \in 1..Len(cols) : cols[i] = c) - 1

\* DataFrame.insert(loc, column, value): a new column at 0-based position loc.
insert(df, loc, column, value) ==
    DF(SubSeq(df.columns, 1, loc) \o <<column>> \o SubSeq(df.columns, loc + 1, Len(df.columns)),
       [j \in 1..Len(df.rows) |->
           [c \in DOMAIN df.rows[j] \cup {column} |->
               IF c = column THEN value[j] ELSE df.rows[j][c]]])

\* add_track_id_column(updated_df).
add_track_id_column(df) ==
    insert(df, get_loc(df.columns, TRACK_URI) + 1, TRACK_ID,
           [j \in 1..Len(df.rows) |-> replace_regex(df.rows[j][TRACK_URI], PREFIX)])

\* rename_master_metadata_columns(updated_df): labels not present are ignored.
rename_master_metadata_columns(df) ==
    DF([i \in 1..Len(df.columns) |-> COLUMNS_TO_RENAME(df.columns[i])],
       [j \in 1..Len(df.rows) |->
           [c \in {COLUMNS_TO_RENAME(x) : x \in DOMAIN df.rows[j]} |->
               df.rows[j][CHOOSE x \in DOMAIN df.rows[j] : COLUMNS_TO_RENAME(x) = c]]])

\* DataFrame.drop(columns = labels): a NEW frame without the labels.
drop(df, labels) ==
    DF(SelectSeq(df.columns, LAMBDA c : c \notin labels),
       [j \in 1..Len(df.rows) |->
           [c \in DOMAIN df.rows[j] \ labels |-> df.rows[j][c]]])

\* drop raises KeyError when a label is not a column (errors = 'raise').
drop_raises(df, labels) == ~(labels \subseteq Range(df.columns))

\* What line 157 leaves in self.all_tracks_df: drop is called without
\* inplace = True and its result is not assigned.
after_privacy_drop(df) == df

\* ------------------------------------------------------------------ recoder
KEY_LETTERS == <<"C", "C#", "D", "D#", "E", "F", "F#", "G", "G#", "A", "A#", "B">>
MODE_LETTERS == <<"m", "M">>

\* Series.replace(to_replace = [0..n-1], value = letters) on one cell.
replace_codes(cell, letters) ==
    IF cell.kind = "int" /\ cell.int \in 0..(Len(letters) - 1)
    THEN PyStr(<<letters[cell.int + 1]>>) ELSE cell

\* prepare_audio_analysis_data(updated_df).
prepare_audio_analysis_data(df) ==
    DF(IF SONG_FULL_KEY \in Range(df.columns) THEN df.columns
       ELSE Append(df.columns, SONG_FULL_KEY),
       [j \in 1..Len(df.rows) |->
           [c \in DOMAIN df.rows[j] \cup {SONG_FULL_KEY} |->
               CASE c = SONG_MODE -> replace_codes(df.rows[j][SONG_MODE], MODE_LETTERS)
                 [] c = SONG_KEY -> replace_codes(df.rows[j][SONG_KEY], KEY_LETTERS)
                 [] c = SONG_FULL_KEY ->
                        PyStr(replace_codes(df.rows[j][SONG_KEY], KEY_LETTERS).str
                              \o replace_codes(df.rows[j][SONG_MODE], MODE_LETTERS).str)
                 [] OTHER -> df.rows[j][c]]])

\* ------------------------------------------------------- known-track mapper
KNOWN_1 == PyStr(<<"K","1">>)

\* Mappings the caller may supply: raw track id -> known track id, over a
\* subset of these raw ids (the last one occurs in no export).
KnownMapChoices ==
    UNION { [S -> {KNOWN_1}] :
            S \in SUBSET {PyStr(<<"A","B","C","1","2","3">>), PyStr(<<"Z">>)} }

\* Series.unique() of a column.
unique(df, c) == {df.rows[j][c] : j \in 1..Len(df.rows)}

\* Mutant: the supplied mapping alone, without the identity entries.
updated_map_supplied_only(ids, m) == m

\* dict(zip(ids, ids)) followed by .update(m).
updated_map(ids, m) ==
    [k \in ids \cup DOMAIN m |-> IF k \in DOMAIN m THEN m[k] ELSE k]

\* Series.map(d) on one cell: a value that is no key of d maps to null.
map_cell(cell, d) == IF cell \in DOMAIN d THEN d[cell] ELSE PyNone

\* add_known_track_id(known_tracks_ids_map) on the working table.
add_known_track_id(df, m) ==
    insert(df, get_loc(df.columns, TRACK_ID) + 1, TRACK_KNOWN_ID,
           [j \in 1..Len(df.rows) |->
               map_cell(df.rows[j][TRACK_ID], updated_map(unique(df, TRACK_ID), m))])

\* --------------------------------------------------------------- aggregator
\* Sum of column c over the rows whose `by` cell is k, accumulated in row order.
RECURSIVE sum_group(_, _, _, _)
sum_group(rows, by, k, c) ==
    IF rows = <<>> THEN 0
    ELSE sum_group(SubSeq(rows, 1, Len(rows) - 1), by, k, c)
         + (IF rows[Len(rows)][by] = k THEN rows[Len(rows)][c].int ELSE 0)

\* Mutant: the group's mean instead of its sum.
groupby_mean(df, by, c) ==
    [k \in unique(df, by) |->
        sum_group(df.rows, by, k, c)
        \div Cardinality({j \in 1..Len(df.rows) : df.rows[j][by] = k})]

\* df.groupby(by)[c].sum(): one entry per distinct value of `by`.
groupby_sum(df, by, c) ==
    [k \in unique(df, by) |-> sum_group(df.rows, by, k, c)]

\* ------------------------------------------------------------------- writer
DIGITS == <<"0","1","2","3","4","5","6","7","8","9">>

\* %m, %d, %H, %M, %S: two digits, zero padded; %Y: four digits.
Pad2(n) == <<DIGITS[(n \div 10) + 1], DIGITS[(n % 10) + 1]>>
Pad4(n) == Pad2(n \div 100) \o Pad2(n % 100)

\* dt.strftime("%Y-%m-%d_%H-%M-%S").
strftime(t) ==
    Pad4(t.Y) \o <<"-">> \o Pad2(t.m) \o <<"-">> \o Pad2(t.d) \o <<"_">>
    \o Pad2(t.H) \o <<"-">> \o Pad2(t.M) \o <<"-">> \o Pad2(t.S)

\* file_name.format(arg): every replacement field {0} becomes arg.
RECURSIVE format(_, _)
format(t, arg) ==
    IF t = <<>> THEN <<>>
    ELSE IF IsPrefix(<<"{","0","}">>, t) THEN arg \o format(SubSeq(t, 4, Len(t)), arg)
    ELSE <<Head(t)>> \o format(Tail(t), arg)

\* The path write_df_to_file writes file_name to at local time t.
write_path(file_name, t) == OUT_DIR \o format(file_name, strftime(t))

Time(Y, m, d, H, M, S) == [Y |-> Y, m |-> m, d |-> d, H |-> H, M |-> M, S |-> S]

\* Local times at which a write may happen.
Times == {Time(2024, 1, 1, 0, 0, 0), Time(1999, 12, 31, 23, 59, 58)}

\* The file-name argument each caller of write_df_to_file passes.
FileNameOf(site) ==
    CASE site = "calc_listen_data_by_key" -> T_BY_KEY
      [] site = "collect_all_tracks_to_file" -> T_ALL
      [] site = "collect_unique_tracks_triplets_to_file" -> T_TRIPLETS

LogicOps == {"calc_listen_data_by_key", "collect_all_tracks_to_file",
             "collect_unique_tracks_triplets_to_file"}

\* ===================================================================== state
Init ==
    /\ files \in Directories
    /\ file_columns \in ColumnChoices
    \* The data set a method is called on: as __init__ leaves an instance of
    \* another aggregation level (attribute never assigned), or holding the
    \* None that get_tracks_listen_data tests for.
    /\ all_tracks_df \in {NoAttr, NoneDF}
    /\ track_file_idx = 0
    /\ all_tracks_json_df = NoneDF
    /\ probes = <<>>
    /\ reads = <<>>
    /\ caller = ""
    /\ pc = "idle"
    /\ err = ""
    /\ ncalls = 0
    /\ loaded = NoneDF
    /\ ret = NoneDF
    /\ known_tracks_ids_map = <<>>
    /\ only_duration = [k \in {} |-> 0]
    /\ file_path = <<>>
    /\ now = Time(0, 0, 0, 0, 0, 0)
    /\ entry = ""
    /\ loads = 0
    /\ stages = <<>>

\* A top-level call of operation op by the client.
Call(op) ==
    /\ pc = "idle"
    /\ ncalls < MaxCalls
    /\ ncalls' = ncalls + 1
    /\ entry' = op

\* Lines 52-53: the loader's locals at entry.
EnterLoader(who) ==
    /\ track_file_idx' = 0
    /\ all_tracks_json_df' = NoneDF
    /\ probes' = <<>>
    /\ reads' = <<>>
    /\ loads' = loads + 1
    /\ caller' = who
    /\ pc' = "loading"

LoaderIdle == <<track_file_idx, all_tracks_json_df, probes, reads, caller, loads, loaded>>
Outputs == <<known_tracks_ids_map, only_duration, file_path, now>>
Input == <<files, file_columns>>

\* --------------------------------------------------------------- the loader
\* SpotifyDataSet.collect_all_tracks_listen_history(data_dir), called directly.
CollectAllTracksListenHistory ==
    /\ Call("collect_all_tracks_listen_history")
    /\ EnterLoader("static")
    /\ UNCHANGED <<Input, all_tracks_df, err, loaded, ret, Outputs, stages>>

\* One iteration of the while loop whose file exists (lines 56-66, 72-76).
LoaderRead ==
    /\ pc = "loading"
    /\ track_file_idx >= 0
    /\ isfile(track_file_idx)
    /\ probes' = Append(probes, track_file_idx)
    /\ reads' = Append(reads, track_file_idx)
    /\ all_tracks_json_df' =
          IF all_tracks_json_df.tag = "None" THEN read_json(track_file_idx)
          ELSE concat(all_tracks_json_df, read_json(track_file_idx))
    /\ track_file_idx' = track_file_idx + 1
    /\ UNCHANGED <<Input, all_tracks_df, caller, pc, err, ncalls, loaded, ret,
                   Outputs, entry, loads, stages>>

\* Mutant: a missing segment is skipped instead of ending the loop.
LoaderMissSkipsGap ==
    /\ pc = "loading"
    /\ track_file_idx >= 0
    /\ ~isfile(track_file_idx)
    /\ probes' = Append(probes, track_file_idx)
    /\ track_file_idx' = IF track_file_idx < MaxSeg THEN track_file_idx + 1 ELSE -1
    /\ UNCHANGED <<Input, all_tracks_df, all_tracks_json_df, reads, caller, pc, err,
                   ncalls, loaded, ret, Outputs, entry, loads, stages>>

\* One iteration whose file does not exist (lines 56-62, 67-70).
LoaderMiss ==
    /\ pc = "loading"
    /\ track_file_idx >= 0
    /\ ~isfile(track_file_idx)
    /\ probes' = Append(probes, track_file_idx)
    /\ track_file_idx' = -1
    /\ UNCHANGED <<Input, all_tracks_df, all_tracks_json_df, reads, caller, pc, err,
                   ncalls, loaded, ret, Outputs, entry, loads, stages>>

\* The value the loader returns (lines 78-83).
LoaderResult ==
    IF all_tracks_json_df.tag # "None"
    THEN sort_values(all_tracks_json_df, TIMESTAMP)
    ELSE all_tracks_json_df

\* Loop exit, the in-place sort and the return; for the getter, the
\* assignment of line 152.
LoaderReturn ==
    /\ pc = "loading"
    /\ track_file_idx < 0
    /\ all_tracks_json_df' = LoaderResult
    /\ loaded' = LoaderResult
    /\ stages' = Append(stages, "Loader")
    /\ IF caller = "get"
       THEN all_tracks_df' = LoaderResult /\ pc' = "add_track_id"
       ELSE all_tracks_df' = all_tracks_df /\ pc' = "idle"
    /\ UNCHANGED <<Input, track_file_idx, probes, reads, caller, loads, err, ncalls,
                   ret, Outputs, entry>>

\* ----------------------------------------------------------- the data set
\* SpotifyDataSet(aggr_level) for a level other than 'track' (lines 143-145):
\* a fresh instance; all_tracks_df is not assigned.
ConstructOther ==
    /\ Call("SpotifyDataSet(other)")
    /\ all_tracks_df' = NoAttr
    /\ pc' = "idle"
    /\ UNCHANGED <<Input, LoaderIdle, err, ret, Outputs, stages>>

\* SpotifyDataSet(aggr_level = 'track'), by the client or by line 115 / 134 /
\* 145 of Logic: __init__ calls get_tracks_listen_data on the fresh instance,
\* whose line 151 reads an attribute that was never assigned.
ConstructTrack ==
    /\ \E op \in {"SpotifyDataSet(track)"} \cup LogicOps : Call(op)
    /\ all_tracks_df' = NoAttr
    /\ err' = "AttributeError"
    /\ pc' = "raised"
    /\ UNCHANGED <<Input, LoaderIdle, ret, Outputs, stages>>

\* get_tracks_listen_data() on an instance without the attribute (line 151).
GetUnset ==
    /\ Call("get_tracks_listen_data")
    /\ all_tracks_df.tag = "unset"
    /\ err' = "AttributeError"
    /\ pc' = "raised"
    /\ UNCHANGED <<Input, LoaderIdle, all_tracks_df, ret, Outputs, stages>>

\* get_tracks_listen_data() when all_tracks_df is None: line 152 runs the loader.
GetLoad ==
    /\ Call("get_tracks_listen_data")
    /\ all_tracks_df.tag = "None"
    /\ EnterLoader("get")
    /\ UNCHANGED <<Input, all_tracks_df, err, loaded, ret, Outputs, stages>>

\* get_tracks_listen_data() when all_tracks_df is a table: line 159 only.
GetCached ==
    /\ Call("get_tracks_listen_data")
    /\ all_tracks_df.tag = "df"
    /\ ret' = all_tracks_df
    /\ pc' = "idle"
    /\ UNCHANGED <<Input, LoaderIdle, all_tracks_df, err, Outputs, stages>>

\* Line 155 on the loader's None: 'NoneType' object has no attribute 'columns'.
AddTrackIdOnNone ==
    /\ pc = "add_track_id"
    /\ all_tracks_df.tag = "None"
    /\ err' = "AttributeError"
    /\ pc' = "raised"
    /\ UNCHANGED <<Input, LoaderIdle, all_tracks_df, ncalls, ret, Outputs, entry, stages>>

\* Line 155: add_track_id_column mutates the table in place.
AddTrackIdColumn ==
    /\ pc = "add_track_id"
    /\ all_tracks_df.tag = "df"
    /\ all_tracks_df' = add_track_id_column(all_tracks_df)
    /\ pc' = "rename"
    /\ UNCHANGED <<Input, LoaderIdle, err, ncalls, ret, Outputs, entry, stages>>

\* Line 156: rename in place.
RenameMasterMetadataColumns ==
    /\ pc = "rename"
    /\ all_tracks_df' = rename_master_metadata_columns(all_tracks_df)
    /\ pc' = "drop"
    /\ UNCHANGED <<Input, LoaderIdle, err, ncalls, ret, Outputs, entry, stages>>

\* Line 157 when a privacy column is absent: drop raises KeyError.
DropRaises ==
    /\ pc = "drop"
    /\ drop_raises(all_tracks_df, PRIVACY_COLUMNS)
    /\ err' = "KeyError"
    /\ pc' = "raised"
    /\ UNCHANGED <<Input, LoaderIdle, all_tracks_df, ncalls, ret, Outputs, entry, stages>>

\* Lines 157-159 otherwise: the drop, then the table is returned.
DropAndReturn ==
    /\ pc = "drop"
    /\ ~drop_raises(all_tracks_df, PRIVACY_COLUMNS)
    /\ all_tracks_df' = after_privacy_drop(all_tracks_df)
    /\ ret' = all_tracks_df'
    /\ stages' = Append(stages, "Normalizer")
    /\ pc' = "idle"
    /\ UNCHANGED <<Input, LoaderIdle, err, ncalls, Outputs, entry>>

\* add_known_track_id(m) on a data set whose table has a track_id column.
AddKnownTrackId ==
    /\ Call("add_known_track_id")
    /\ all_tracks_df.tag = "df"
    /\ TRACK_ID \in Range(all_tracks_df.columns)
    /\ TRACK_KNOWN_ID \notin Range(all_tracks_df.columns)
    /\ \E m \in KnownMapChoices :
          /\ known_tracks_ids_map' = m
          /\ all_tracks_df' = add_known_track_id(all_tracks_df, m)
    /\ stages' = Append(stages, "Deduplicator")
    /\ pc' = "idle"
    /\ UNCHANGED <<Input, LoaderIdle, err, ret, only_duration, file_path, now>>

\* ------------------------------------------------------------------- Logic
\* calc_listen_data_by_key, the statements after the constructor call (lines
\* 116-123), on a data set whose table is loaded: group, sum, and write.  The
\* mean over the remaining columns (lines 119-120) does not change the
\* duration column.
CalcListenDataByKey ==
    /\ Call("calc_listen_data_by_key")
    /\ all_tracks_df.tag = "df"
    /\ only_duration' = groupby_sum(all_tracks_df, SONG_KEY, MS_PLAYED)
    /\ \E t \in Times :
          /\ now' = t
          /\ file_path' = write_path(FileNameOf("calc_listen_data_by_key"), t)
    /\ stages' = stages \o <<"Aggregator", "Writer">>
    /\ pc' = "idle"
    /\ UNCHANGED <<Input, LoaderIdle, all_tracks_df, err, ret, known_tracks_ids_map>>

\* Lines 119-120 under a pandas whose mean() refuses the str columns (ts, URI):
\* TypeError after the sum of lines 116-117, nothing is written.
CalcListenDataByKeyRaises ==
    /\ Call("calc_listen_data_by_key")
    /\ all_tracks_df.tag = "df"
    /\ only_duration' = groupby_sum(all_tracks_df, SONG_KEY, MS_PLAYED)
    /\ stages' = Append(stages, "Aggregator")
    /\ err' = "TypeError"
    /\ pc' = "raised"
    /\ UNCHANGED <<Input, LoaderIdle, all_tracks_df, ret, known_tracks_ids_map,
                   file_path, now>>

\* collect_all_tracks_to_file (lines 137-142) and
\* collect_unique_tracks_triplets_to_file (lines 147-153), the statements after
\* the constructor call, on a data set whose table is loaded.  The table the
\* second one writes comes from the catalog client; only the path is modelled.
CollectToFile ==
    /\ \E op \in LogicOps \ {"calc_listen_data_by_key"} :
          /\ Call(op)
          /\ \E t \in Times : now' = t /\ file_path' = write_path(FileNameOf(op), t)
    /\ all_tracks_df.tag = "df"
    /\ ret' = all_tracks_df
    /\ stages' = Append(stages, "Writer")
    /\ pc' = "idle"
    /\ UNCHANGED <<Input, LoaderIdle, all_tracks_df, err, known_tracks_ids_map,
                   only_duration>>

Next ==
    \/ CollectAllTracksListenHistory
    \/ LoaderRead
    \/ LoaderMiss
    \/ LoaderReturn
    \/ ConstructOther
    \/ ConstructTrack
    \/ GetUnset
    \/ GetLoad
    \/ GetCached
    \/ AddTrackIdOnNone
    \/ AddTrackIdColumn
    \/ RenameMasterMetadataColumns
    \/ DropRaises
    \/ DropAndReturn
    \/ AddKnownTrackId
    \/ CalcListenDataByKey
    \/ CalcListenDataByKeyRaises
    \/ CollectToFile

Spec == Init /\ [][Next]_vars

\* ==================================================================== claims
\* Number of positions of sequence s that hold r.
Count(s, r) == Cardinality({j \in 1..Len(s) : s[j] = r})

\* Sequences a and b hold the same rows, each as often.
IsPermutation(a, b) ==
    /\ Len(a) = Len(b)
    /\ \A r \in Range(a) \cup Range(b) : Count(a, r) = Count(b, r)

\* The first segment index missing from the data directory.
FirstGap == CHOOSE k \in 0..(MaxSeg + 1) :
                k \notin DOMAIN files /\ \A i \in 0..(k - 1) : i \in DOMAIN files

\* The records of segments 0 .. k-1, in file order.
RECURSIVE RowsOfSegments(_)
RowsOfSegments(k) ==
    IF k = 0 THEN <<>> ELSE RowsOfSegments(k - 1) \o read_json(k - 1).rows

UpTo(n) == [i \in 1..n |-> i - 1]

LoaderReturned == loads > 0 /\ pc # "loading"

\* C1: the loader reads the segment files in increasing index order from 0 and
\* stops at the first missing index k: no index >= k is ever read, index k is
\* the last one probed, and the returned table holds exactly the rows of
\* segments 0 .. k-1 (no table at all when k = 0).
C1_SegmentGap ==
    /\ loads > 0 =>
          /\ reads = UpTo(Len(reads))
          /\ \A j \in 1..Len(reads) : reads[j] < FirstGap
          /\ \A j \in 1..Len(probes) : probes[j] <= FirstGap
    /\ LoaderReturned =>
          /\ reads = UpTo(FirstGap)
          /\ probes = UpTo(FirstGap + 1)
          /\ loaded.tag = (IF FirstGap = 0 THEN "None" ELSE "df")
          /\ IsPermutation(loaded.rows, RowsOfSegments(FirstGap))

\* C1 witness: segments {0,1,3} are present and the loader has returned the
\* rows of segments 0 and 1 only.
C1_Witness ==
    /\ LoaderReturned
    /\ DOMAIN files = {0, 1, 3}
    /\ reads = <<0, 1>>
    /\ Len(loaded.rows) = Len(files[0]) + Len(files[1])

\* The records of the first n files read, in the order they were read.
RECURSIVE RowsRead(_)
RowsRead(n) ==
    IF n = 0 THEN <<>> ELSE RowsRead(n - 1) \o read_json(reads[n]).rows

IsSortedBy(rows, by) ==
    \A i \in 1..(Len(rows) - 1) : rows[i][by].int <= rows[i + 1][by].int

\* C8: the table the loader returns is a permutation of the concatenated rows
\* of the segments read and is non-decreasing by timestamp.
C8_SortedByTimestamp ==
    (LoaderReturned /\ loaded.tag = "df") =>
        /\ IsSortedBy(loaded.rows, TIMESTAMP)
        /\ IsPermutation(loaded.rows, RowsRead(Len(reads)))

\* C8 witness: at least two rows were loaded and their concatenation in file
\* order was not sorted.
C8_Witness ==
    /\ LoaderReturned
    /\ loaded.tag = "df"
    /\ Len(loaded.rows) >= 2
    /\ ~IsSortedBy(RowsRead(Len(reads)), TIMESTAMP)

\* The URI with the fixed prefix stripped.
StripPrefix(uri) ==
    IF IsPrefix(PREFIX, uri) THEN SubSeq(uri, Len(PREFIX) + 1, Len(uri)) ELSE uri

HasTrackId == all_tracks_df.tag = "df" /\ TRACK_ID \in Range(all_tracks_df.columns)

TableRows == {all_tracks_df.rows[j] : j \in 1..Len(all_tracks_df.rows)}

\* C3 as stated: once the track-id column exists, every row's track id is
\* non-null and is the row's URI with 'spotify:track:' stripped.
C3_Original ==
    HasTrackId =>
        \A r \in TableRows :
            /\ r[TRACK_ID].kind = "str"
            /\ r[TRACK_ID].str = StripPrefix(r[TRACK_URI].str)

\* C3 amended: every row whose URI is a track URI spotify:track:<id> has the
\* non-null track id <id> (spotify:track:ABC123 gives ABC123); a row whose URI
\* is null has a null track id.
C3_TrackIdFromUri ==
    HasTrackId =>
        \A r \in TableRows :
            /\ (r[TRACK_URI].kind = "str" /\ IsPrefix(PREFIX, r[TRACK_URI].str)) =>
                  /\ r[TRACK_ID].kind = "str"
                  /\ r[TRACK_ID].str = StripPrefix(r[TRACK_URI].str)
            /\ r[TRACK_URI] = PyStr(URI_ABC123) =>
                  r[TRACK_ID] = PyStr(<<"A","B","C","1","2","3">>)
            /\ r[TRACK_URI].kind = "null" => r[TRACK_ID].kind = "null"

\* C3 witness: the normalizer has added track ids to a table holding both a
\* row with URI spotify:track:ABC123 and a row with a null URI.
C3_Witness ==
    /\ HasTrackId
    /\ \E r \in TableRows : r[TRACK_URI] = PyStr(URI_ABC123)
    /\ \E r \in TableRows : r[TRACK_URI].kind = "null"

HasKnownId ==
    all_tracks_df.tag = "df" /\ TRACK_KNOWN_ID \in Range(all_tracks_df.columns)

\* C4 as stated: after add_known_track_id every row has a non-null known id,
\* the mapped value for a raw id in the supplied mapping, else its own raw id.
C4_Original ==
    HasKnownId =>
        \A r \in TableRows :
            /\ r[TRACK_KNOWN_ID].kind # "null"
            /\ r[TRACK_KNOWN_ID] =
                  (IF r[TRACK_ID] \in DOMAIN known_tracks_ids_map
                   THEN known_tracks_ids_map[r[TRACK_ID]] ELSE r[TRACK_ID])

\* C4 amended: after add_known_track_id a row whose raw id is a key of the
\* supplied mapping has the mapped value, any other row has its own raw id,
\* and the known id is non-null for every row whose raw id is non-null.
C4_KnownIdIdentityFallback ==
    HasKnownId =>
        \A r \in TableRows :
            /\ r[TRACK_ID] \in DOMAIN known_tracks_ids_map =>
                  r[TRACK_KNOWN_ID] = known_tracks_ids_map[r[TRACK_ID]]
            /\ r[TRACK_ID] \notin DOMAIN known_tracks_ids_map =>
                  r[TRACK_KNOWN_ID] = r[TRACK_ID]
            /\ r[TRACK_ID].kind # "null" => r[TRACK_KNOWN_ID].kind # "null"

\* C4 witness: a partial mapping was applied to a table with a mapped row, an
\* unmapped row with a raw id, and a row without one.
C4_Witness ==
    /\ HasKnownId
    /\ known_tracks_ids_map # <<>>
    /\ \E r \in TableRows : r[TRACK_ID] \in DOMAIN known_tracks_ids_map
    /\ \E r \in TableRows :
          r[TRACK_ID] \notin DOMAIN known_tracks_ids_map /\ r[TRACK_ID].kind = "str"
    /\ \E r \in TableRows : r[TRACK_ID].kind = "null"

\* Sum of ms_played over a set of row positions, in no particular order.
RECURSIVE SumOver(_, _)
SumOver(rows, J) ==
    IF J = {} THEN 0
    ELSE LET j == CHOOSE x \in J : TRUE
         IN rows[j][MS_PLAYED].int + SumOver(rows, J \ {j})

\* The by-key aggregation has just run on the working table.
Aggregated ==
    /\ entry = "calc_listen_data_by_key"
    /\ all_tracks_df.tag = "df"
    /\ pc = "idle" \/ err = "TypeError"

C2_PrivacyColumnsDropped ==
    /\ (entry = "get_tracks_listen_data" /\ pc = "idle") =>
          /\ ret.tag = "df"
          /\ Range(ret.columns) \cap PRIVACY_COLUMNS = {}
          /\ Range(all_tracks_df.columns) \cap PRIVACY_COLUMNS = {}
    /\ (entry = "get_tracks_listen_data" /\ pc = "raised") => err # "KeyError"

KeyLetterCells == {PyStr(<<KEY_LETTERS[i]>>) : i \in 1..Len(KEY_LETTERS)}

\* Stage a precedes stage b in the sequence of executed stages.
Precedes(a, b) ==
    \E i, j \in 1..Len(stages) : i < j /\ stages[i] = a /\ stages[j] = b

\* C5: when the by-key aggregation groups the table, the Loader, Normalizer
\* and Recoder have run before the Aggregator, in this order, and every group
\* key of the result is one of the twelve key letters, never a numeric code.
C5_RecodedBeforeGrouping ==
    Aggregated =>
        /\ Precedes("Loader", "Normalizer")
        /\ Precedes("Normalizer", "Recoder")
        /\ Precedes("Recoder", "Aggregator")
        /\ DOMAIN only_duration \subseteq KeyLetterCells

\* The base names of the three output files.
OutputNames ==
    { SubSeq(T_BY_KEY, 1, Len(T_BY_KEY) - 4),
      SubSeq(T_ALL, 1, Len(T_ALL) - 8),
      SubSeq(T_TRIPLETS, 1, Len(T_TRIPLETS) - 8) }

TwoDigits(n) == <<DIGITS[(n \div 10) + 1], DIGITS[(n % 10) + 1]>>

\* YYYY-MM-DD_HH-MM-SS of a local time.
Stamp(t) ==
    TwoDigits(t.Y \div 100) \o TwoDigits(t.Y % 100) \o <<"-">> \o TwoDigits(t.m)
    \o <<"-">> \o TwoDigits(t.d) \o <<"_">> \o TwoDigits(t.H) \o <<"-">>
    \o TwoDigits(t.M) \o <<"-">> \o TwoDigits(t.S)

\* C7: every file the pipeline writes is named <name>_<timestamp>.csv in the
\* output directory, the timestamp being the local time of the write as
\* YYYY-MM-DD_HH-MM-SS.
C7_TimestampedFileName ==
    file_path # <<>> =>
        \E name \in OutputNames :
            file_path = OUT_DIR \o name \o <<"_">> \o Stamp(now) \o <<".","c","s","v">>

\* C9: with no segment file the loader probes index 0 only, reads nothing and
\* returns no table without raising, and get_tracks_listen_data, its caller,
\* does not fail on that result.
C9_EmptyDirectoryHandled ==
    (LoaderReturned /\ 0 \notin DOMAIN files) =>
        /\ probes = <<0>>
        /\ reads = <<>>
        /\ loaded = NoneDF
        /\ caller = "get" => err = ""

\* C10: SpotifyDataSet(aggr_level = 'track') ends without an error, having run
\* the loader once, with all_tracks_df set; and a get_tracks_listen_data call
\* on a data set that holds a table reads no file and returns that table.
C10_LazyInitialisation ==
    /\ (entry = "SpotifyDataSet(track)" /\ pc # "loading") =>
          /\ err = ""
          /\ all_tracks_df.tag # "unset"
          /\ loads = 1
    /\ (entry = "get_tracks_listen_data" /\ pc = "idle") => ret = all_tracks_df

====
